---- MODULE Spec2Model ----
\* A model of oceanmetrics.py: the metric dispatcher (apply_func, apply_funcs,
\* apply_metric) and the grid diagnostics (vorty_zx, vorty_tzx, kinetic_energy,
\* potential_energy).  The diagnostics are numpy expressions; they are modelled
\* over a small n-dimensional array algebra with numpy's basic indexing,
\* broadcasting and in-place update rules.  Array elements are exact rationals
\* standing for the floating point values.
EXTENDS Integers, Sequences, FiniteSets, TLC

\* ------------------------------------------------------------------ bounds

\* Largest number of cells along z and along x of a valid staggered grid.
MaxN == 2
\* Largest number of time steps.
MaxNt == 2
\* Largest coefficient of the non-constant part of a field / of grid stretching.
MaxCoef == 1
\* Largest axis length tried when a shape is made inconsistent.
MaxLen == 4
\* Largest number of rows of the parameter table.
MaxRows == 3
\* Largest number of functions handed to apply_funcs.
MaxFuncs == 2
\* Largest value a caller's function returns.
MaxVal == 2

\* ------------------------------------------------------------------ numbers

\* A number is <<n, d>> with d >= 0 in lowest terms; d = 0 encodes the IEEE
\* values +inf (<<1,0>>), -inf (<<-1,0>>) and nan (<<0,0>>).

Abs(n) == IF n < 0 THEN -n ELSE n

Sign(n) == IF n < 0 THEN -1 ELSE IF n > 0 THEN 1 ELSE 0

RECURSIVE GCD(_, _)
GCD(a, b) == IF b = 0 THEN a ELSE GCD(b, a % b)

Norm(n, d) ==
    IF d = 0 THEN <<Sign(n), 0>>
    ELSE LET g == GCD(Abs(n), Abs(d))
             s == IF d < 0 THEN -1 ELSE 1
         IN  <<(s * n) \div g, (s * d) \div g>>

R(n) == <<n, 1>>

RAdd(x, y) ==
    IF x[2] = 0 /\ y[2] = 0
    THEN (IF x[1] = y[1] THEN x ELSE <<0, 0>>)
    ELSE Norm(x[1] * y[2] + y[1] * x[2], x[2] * y[2])

RNeg(x) == <<-x[1], x[2]>>

RSub(x, y) == RAdd(x, RNeg(y))

RMul(x, y) == Norm(x[1] * y[1], x[2] * y[2])

RDiv(x, y) == Norm(x[1] * y[2], x[2] * y[1])

RHalf == <<1, 2>>

\* ------------------------------------------------------------------ arrays

\* An ndarray is [err, shape, data]: data maps every index tuple (0-based,
\* one component per axis) to a number.  err = TRUE stands for the exception
\* (IndexError / ValueError) numpy raises; it propagates through every
\* operation, as an uncaught exception does.

Failure == [err |-> TRUE, shape |-> <<>>, data |-> <<>>]

\* The value of a one-element set (used to evaluate an operand once).
Only(S) == CHOOSE x \in S : TRUE

\* An array's elements, computed once and stored (as numpy stores them).
Stored(f) == f @@ <<>>

RECURSIVE IndexSet(_)
IndexSet(shape) ==
    IF shape = <<>> THEN {<<>>}
    ELSE {<<i>> \o r : i \in 0..(shape[1] - 1), r \in IndexSet(Tail(shape))}

Scalar(x) == [err |-> FALSE, shape |-> <<>>, data |-> [idx \in {<<>>} |-> x]]

MaxOf(a, b) == IF a > b THEN a ELSE b

MinOf(a, b) == IF a < b THEN a ELSE b

\* numpy broadcasting: shapes are aligned on their last axis and padded with 1.
PadShape(s, n) ==
    [d \in 1..n |-> IF d <= n - Len(s) THEN 1 ELSE s[d - (n - Len(s))]]

BCompat(s1, s2) ==
    \A d \in 1..MaxOf(Len(s1), Len(s2)) :
        LET x == PadShape(s1, MaxOf(Len(s1), Len(s2)))[d]
            y == PadShape(s2, MaxOf(Len(s1), Len(s2)))[d]
        IN  x = y \/ x = 1 \/ y = 1

BShape(s1, s2) ==
    [d \in 1..MaxOf(Len(s1), Len(s2)) |->
        IF PadShape(s1, MaxOf(Len(s1), Len(s2)))[d] = 1
        THEN PadShape(s2, MaxOf(Len(s1), Len(s2)))[d]
        ELSE PadShape(s1, MaxOf(Len(s1), Len(s2)))[d]]

\* The index into an operand of shape s that the broadcast index idx reads.
BIndex(idx, s) ==
    [d \in 1..Len(s) |-> IF s[d] = 1 THEN 0 ELSE idx[d + (Len(idx) - Len(s))]]

\* The arithmetic operators of the source, by name.
ROp(op, x, y) ==
    CASE op = "+" -> RAdd(x, y)
      [] op = "-" -> RSub(x, y)
      [] op = "*" -> RMul(x, y)
      [] op = "/" -> RDiv(x, y)

ElemWiseOf(op, a, b, s) ==
    [err |-> FALSE, shape |-> s,
     data |-> Stored([idx \in IndexSet(s) |->
                 Only({ROp(op, x, y) : x \in {a.data[BIndex(idx, a.shape)]},
                                       y \in {b.data[BIndex(idx, b.shape)]}})])]

\* An elementwise binary operation a op b with broadcasting.
ElemWise(op, a, b) ==
    IF a.err \/ b.err THEN Failure
    ELSE IF ~BCompat(a.shape, b.shape) THEN Failure
    ELSE Only({ElemWiseOf(op, a, b, s) : s \in {BShape(a.shape, b.shape)}})

\* np.zeros(shape)
NpZeros(shape) ==
    [err |-> FALSE, shape |-> shape, data |-> Stored([idx \in IndexSet(shape) |-> R(0)])]

\* ------------------------------------------------------------------ indexing

\* The items of a subscript: i:j (either bound may be absent), None, and an
\* integer.
SlAll == [k |-> "sl", haslo |-> FALSE, lo |-> 0, hashi |-> FALSE, hi |-> 0]

SlFrom(lo) == [k |-> "sl", haslo |-> TRUE, lo |-> lo, hashi |-> FALSE, hi |-> 0]

SlTo(hi) == [k |-> "sl", haslo |-> FALSE, lo |-> 0, hashi |-> TRUE, hi |-> hi]

SlRange(lo, hi) == [k |-> "sl", haslo |-> TRUE, lo |-> lo, hashi |-> TRUE, hi |-> hi]

NewAxis == [k |-> "new", haslo |-> FALSE, lo |-> 0, hashi |-> FALSE, hi |-> 0]

At(i) == [k |-> "ix", haslo |-> TRUE, lo |-> i, hashi |-> FALSE, hi |-> 0]

\* A slice bound on an axis of length n: negative bounds count from the end,
\* and every bound is clipped into 0..n.
ClipBound(b, n) == IF b < 0 THEN MaxOf(b + n, 0) ELSE MinOf(b, n)

SliceStart(it, n) == IF it.haslo THEN ClipBound(it.lo, n) ELSE 0

SliceStop(it, n) == IF it.hashi THEN ClipBound(it.hi, n) ELSE n

SliceLen(it, n) == MaxOf(SliceStop(it, n) - SliceStart(it, n), 0)

\* An item other than None consumes an axis of the array; an item other than
\* an integer makes an axis of the result.
Keeps(it, what) == IF what = "consumes" THEN it.k # "new" ELSE it.k # "ix"

\* Positions (in order) of the items that consume / make an axis, from p on.
RECURSIVE Positions(_, _, _)
Positions(items, what, p) ==
    IF p > Len(items) THEN <<>>
    ELSE (IF Keeps(items[p], what) THEN <<p>> ELSE <<>>) \o Positions(items, what, p + 1)

CountUpTo(items, what, p) == Cardinality({q \in 1..p : Keeps(items[q], what)})

\* A subscript with fewer items than the array has axes selects all of the
\* remaining axes.
FillItems(items, ndim) ==
    items \o [d \in 1..(ndim - CountUpTo(items, "consumes", Len(items))) |-> SlAll]

\* Too many indices, or an integer out of range, raise IndexError.
IndexOk(shape, items) ==
    /\ CountUpTo(items, "consumes", Len(items)) <= Len(shape)
    /\ \A p \in 1..Len(items) :
         items[p].k = "ix" =>
            /\ items[p].lo >= -shape[CountUpTo(items, "consumes", p)]
            /\ items[p].lo < shape[CountUpTo(items, "consumes", p)]

\* The shape of a[its], its a subscript with an item for every axis, out the
\* positions of its items that make an axis.
ViewShapeOf(shape, its, out) ==
    [o \in 1..Len(out) |->
        IF its[out[o]].k = "new" THEN 1
        ELSE SliceLen(its[out[o]], shape[CountUpTo(its, "consumes", out[o])])]

ViewShape(shape, items) ==
    Only({ViewShapeOf(shape, its, Positions(its, "makes", 1)) :
            its \in {FillItems(items, Len(shape))}})

\* The index of a that a[its][vidx] refers to, src the positions of the
\* items that consume an axis.
ViewIndexOf(shape, its, src, vidx) ==
    [d \in 1..Len(shape) |->
        IF its[src[d]].k = "ix"
        THEN (IF its[src[d]].lo < 0 THEN its[src[d]].lo + shape[d] ELSE its[src[d]].lo)
        ELSE SliceStart(its[src[d]], shape[d]) + vidx[CountUpTo(its, "makes", src[d])]]

\* For every index of a[items], the index of a it refers to.
ViewMap(shape, items) ==
    Only({Stored([vidx \in IndexSet(ViewShapeOf(shape, its, out)) |->
                    ViewIndexOf(shape, its, src, vidx)]) :
            its \in {FillItems(items, Len(shape))},
            out \in {Positions(FillItems(items, Len(shape)), "makes", 1)},
            src \in {Positions(FillItems(items, Len(shape)), "consumes", 1)}})

\* The indices of a that a[items] covers.
ViewCover(shape, items) ==
    Only({{m[v] : v \in DOMAIN m} : m \in {ViewMap(shape, items)}})

NpIndexOf(a, s, m) ==
    [err |-> FALSE, shape |-> s, data |-> Stored([vidx \in DOMAIN m |-> a.data[m[vidx]]])]

\* a[items] (basic indexing: the result reads a's memory).
NpIndex(a, items) ==
    IF a.err THEN Failure
    ELSE IF ~IndexOk(a.shape, items) THEN Failure
    ELSE Only({NpIndexOf(a, s, m) : s \in {ViewShape(a.shape, items)},
                                    m \in {ViewMap(a.shape, items)}})

NpInPlaceOf(op, a, b, m) ==
    [a EXCEPT !.data =
        Stored([idx \in DOMAIN a.data |->
                  IF \E v \in DOMAIN m : m[v] = idx
                  THEN Only({ROp(op, a.data[idx], y) :
                               y \in {b.data[BIndex(CHOOSE v \in DOMAIN m : m[v] = idx,
                                                    b.shape)]}})
                  ELSE a.data[idx]])]

\* a[items] op= b : b is broadcast to the shape of a[items], which it must
\* not enlarge, and the result is written into a's memory.
NpInPlace(op, a, items, b) ==
    IF a.err \/ b.err THEN Failure
    ELSE IF ~IndexOk(a.shape, items) THEN Failure
    ELSE Only({IF Len(b.shape) <= Len(s) /\ BCompat(s, b.shape) /\ BShape(s, b.shape) = s
               THEN NpInPlaceOf(op, a, b, m)
               ELSE Failure :
                  s \in {ViewShape(a.shape, items)}, m \in {ViewMap(a.shape, items)}})

\* ------------------------------------------------------------------ expressions

\* The expressions of the diagnostics, as the source writes them.
Name(id) == [k |-> "name", id |-> id]

Const(x) == [k |-> "const", val |-> x]

Bin(op, l, r) == [k |-> "bin", op |-> op, l |-> l, r |-> r]

\* e[items]
Sub(e, items) == [k |-> "index", e |-> e, items |-> items]

\* e ** 2
Sq(e) == [k |-> "sq", e |-> e]

\* np.zeros((n1.shape[0], n2.shape[0], ...))
Zeros(names) == [k |-> "zeros", names |-> names]

\* The value of expression e where the names refer to the arrays of v.
RECURSIVE EvalOf(_, _)
EvalOf(v, e) ==
    CASE e.k = "name" -> v[e.id]
      [] e.k = "const" -> Scalar(e.val)
      [] e.k = "bin" ->
            Only({ElemWise(e.op, x, y) : x \in {EvalOf(v, e.l)}, y \in {EvalOf(v, e.r)}})
      [] e.k = "index" -> Only({NpIndex(x, e.items) : x \in {EvalOf(v, e.e)}})
      [] e.k = "sq" -> Only({ElemWise("*", x, x) : x \in {EvalOf(v, e.e)}})
      [] e.k = "zeros" -> NpZeros([d \in 1..Len(e.names) |-> v[e.names[d]].shape[1]])

Eval(v, e) == Only({EvalOf(x, e) : x \in {v}})

\* Whether the value of e is an array of its own: a name, and a subscript of
\* a name, refer to the memory of the named array.
RECURSIVE RootOf(_, _)
RootOf(base, e) ==
    CASE e.k = "name" -> base[e.id]
      [] e.k = "index" -> RootOf(base, e.e)
      [] OTHER -> "fresh"

\* ------------------------------------------------------------------ statements

Assign(name, e) == [k |-> "assign", name |-> name, e |-> e]

\* name[items] op= e
Aug(name, items, op, e) == [k |-> "aug", name |-> name, items |-> items, op |-> op, e |-> e]

Return(e) == [k |-> "return", e |-> e]

\* The state of a call: the arrays its names refer to (vals), for each name
\* the argument whose memory it refers to or "fresh" (base), for each name
\* the in-place updates that wrote each entry of its array (wrote), whether
\* an exception was raised, and the returned array and whose memory it is.
Frame(args, params) ==
    [vals |-> args,
     base |-> params,
     wrote |-> [n \in DOMAIN args |-> <<>>],
     raised |-> FALSE,
     returned |-> FALSE,
     ret |-> Failure,
     owner |-> "none",
     retname |-> "none"]

NoteWrites(old, shape, items, what) ==
    Only({[idx \in IndexSet(shape) |->
             (IF idx \in DOMAIN old THEN old[idx] ELSE {})
             \cup (IF idx \in c THEN {what} ELSE {})] : c \in {ViewCover(shape, items)}})

TermName(e) == IF e.k = "name" THEN e.id ELSE "expr"

StepAssign(f, st, x) ==
    IF x.err THEN [f EXCEPT !.raised = TRUE]
    ELSE [f EXCEPT !.vals = (st.name :> x) @@ f.vals,
                   !.base = (st.name :> RootOf(f.base, st.e)) @@ f.base,
                   !.wrote = (st.name :> <<>>) @@ f.wrote]

StepAug(f, st, x) ==
    IF x.err THEN [f EXCEPT !.raised = TRUE]
    ELSE [f EXCEPT !.vals = (st.name :> x) @@ f.vals,
                   !.wrote = (st.name :> NoteWrites(f.wrote[st.name], x.shape, st.items,
                                                    TermName(st.e))) @@ f.wrote]

StepReturn(f, st, x) ==
    IF x.err THEN [f EXCEPT !.raised = TRUE]
    ELSE [f EXCEPT !.returned = TRUE, !.ret = x,
                   !.owner = RootOf(f.base, st.e),
                   !.retname = IF st.e.k = "name" THEN st.e.id ELSE "none"]

\* One statement; an exception ends the call, and so does return.
Step(f, st) ==
    IF f.raised \/ f.returned THEN f
    ELSE CASE st.k = "assign" ->
                Only({StepAssign(f, st, x) : x \in {Eval(f.vals, st.e)}})
           [] st.k = "aug" ->
                Only({StepAug(f, st, x) :
                        x \in {Only({NpInPlace(st.op, f.vals[st.name], st.items, y) :
                                       y \in {Eval(f.vals, st.e)}})}})
           [] st.k = "return" ->
                Only({StepReturn(f, st, x) : x \in {Eval(f.vals, st.e)}})

RECURSIVE Exec(_, _)
Exec(f, stmts) ==
    IF stmts = <<>> THEN f
    ELSE Only({Exec(g, Tail(stmts)) : g \in {Only({Step(x, Head(stmts)) : x \in {f}})}})

\* A call of the function with this body: args are the argument arrays by
\* parameter name, params names the caller's array each parameter refers to.
Call(body, args, params) == Exec(Frame(args, params), body)

\* ------------------------------------------------------------------ vorty_zx

\* dwdx = (w_zx[:, 1:] - w_zx[:, :-1]) / (xC[None, 1:] - xC[None, :-1])
vorty_zx_dwdx ==
    Assign("dwdx",
       Bin("/", Bin("-", Sub(Name("w_zx"), <<SlAll, SlFrom(1)>>),
                         Sub(Name("w_zx"), <<SlAll, SlTo(-1)>>)),
                Bin("-", Sub(Name("xC"), <<NewAxis, SlFrom(1)>>),
                         Sub(Name("xC"), <<NewAxis, SlTo(-1)>>))))

\* dudz = (u_zx[1:, :] - u_zx[:-1, :]) / (zC[1:, None] - zC[:-1, None])
vorty_zx_dudz ==
    Assign("dudz",
       Bin("/", Bin("-", Sub(Name("u_zx"), <<SlFrom(1), SlAll>>),
                         Sub(Name("u_zx"), <<SlTo(-1), SlAll>>)),
                Bin("-", Sub(Name("zC"), <<SlFrom(1), NewAxis>>),
                         Sub(Name("zC"), <<SlTo(-1), NewAxis>>))))

\* vorty = np.zeros((zF.shape[0], xF.shape[0]))
vorty_zx_zeros == Assign("vorty", Zeros(<<"zF", "xF">>))

\* vorty[1:-1, 1:-1] += dwdx[1:-1, :]: dw/dx kept off the first and last row.
vorty_zx_add_dwdx_interior ==
    Aug("vorty", <<SlRange(1, -1), SlRange(1, -1)>>, "+",
        Sub(Name("dwdx"), <<SlRange(1, -1), SlAll>>))

\* vorty[:, 1:-1] += dwdx
vorty_zx_add_dwdx == Aug("vorty", <<SlAll, SlRange(1, -1)>>, "+", Name("dwdx"))

\* vorty[1:-1, :] += dudz: the sign of du/dz lost.
vorty_zx_add_dudz == Aug("vorty", <<SlRange(1, -1), SlAll>>, "+", Name("dudz"))

\* vorty[1:-1, :] -= dudz
vorty_zx_sub_dudz == Aug("vorty", <<SlRange(1, -1), SlAll>>, "-", Name("dudz"))

\* vorty_zx(u_zx, w_zx, xC, xF, zC, zF)
vorty_zx ==
    <<vorty_zx_dwdx, vorty_zx_dudz, vorty_zx_zeros, vorty_zx_add_dwdx, vorty_zx_sub_dudz,
      Return(Name("vorty"))>>

\* ------------------------------------------------------------------ vorty_tzx

vorty_tzx_dwdx ==
    Assign("dwdx",
       Bin("/", Bin("-", Sub(Name("w_tzx"), <<SlAll, SlAll, SlFrom(1)>>),
                         Sub(Name("w_tzx"), <<SlAll, SlAll, SlTo(-1)>>)),
                Bin("-", Sub(Name("xC"), <<NewAxis, NewAxis, SlFrom(1)>>),
                         Sub(Name("xC"), <<NewAxis, NewAxis, SlTo(-1)>>))))

vorty_tzx_dudz ==
    Assign("dudz",
       Bin("/", Bin("-", Sub(Name("u_tzx"), <<SlAll, SlFrom(1), SlAll>>),
                         Sub(Name("u_tzx"), <<SlAll, SlTo(-1), SlAll>>)),
                Bin("-", Sub(Name("zC"), <<NewAxis, SlFrom(1), NewAxis>>),
                         Sub(Name("zC"), <<NewAxis, SlTo(-1), NewAxis>>))))

\* vorty = np.zeros((u_tzx.shape[0], zF.shape[0], xF.shape[0]))
vorty_tzx_zeros == Assign("vorty", Zeros(<<"u_tzx", "zF", "xF">>))

\* vorty[:, :, 1:-1] -= dwdx: the sign of dw/dx lost.
vorty_tzx_sub_dwdx == Aug("vorty", <<SlAll, SlAll, SlRange(1, -1)>>, "-", Name("dwdx"))

\* vorty[:, :, 1:-1] += dwdx
vorty_tzx_add_dwdx == Aug("vorty", <<SlAll, SlAll, SlRange(1, -1)>>, "+", Name("dwdx"))

\* vorty[:, 1:-1, :] -= dudz
vorty_tzx_sub_dudz == Aug("vorty", <<SlAll, SlRange(1, -1), SlAll>>, "-", Name("dudz"))

\* vorty_tzx(u_tzx, w_tzx, xC, xF, zC, zF)
vorty_tzx ==
    <<vorty_tzx_dwdx, vorty_tzx_dudz, vorty_tzx_zeros, vorty_tzx_add_dwdx,
      vorty_tzx_sub_dudz, Return(Name("vorty"))>>

\* ------------------------------------------------------------------ energies

\* dx = xF[1:] - xF[:-1]
box_dx == Assign("dx", Bin("-", Sub(Name("xF"), <<SlFrom(1)>>), Sub(Name("xF"), <<SlTo(-1)>>)))

\* dz = zF[1:] - zF[:-1]
box_dz == Assign("dz", Bin("-", Sub(Name("zF"), <<SlFrom(1)>>), Sub(Name("zF"), <<SlTo(-1)>>)))

\* areas = dx[None, :] * dz[:, None]
box_areas ==
    Assign("areas",
       Bin("*", Sub(Name("dx"), <<NewAxis, SlAll>>), Sub(Name("dz"), <<SlAll, NewAxis>>)))

\* uCC = u[:, :, 1:] + u[:, :, :-1]: the sum of the faces, not their mean.
kinetic_energy_uCC_sum ==
    Assign("uCC",
       Bin("+", Sub(Name("u"), <<SlAll, SlAll, SlFrom(1)>>),
                Sub(Name("u"), <<SlAll, SlAll, SlTo(-1)>>)))

\* uCC = (u[:, :, 1:] + u[:, :, :-1]) * 0.5
kinetic_energy_uCC ==
    Assign("uCC",
       Bin("*", Bin("+", Sub(Name("u"), <<SlAll, SlAll, SlFrom(1)>>),
                         Sub(Name("u"), <<SlAll, SlAll, SlTo(-1)>>)),
                Const(RHalf)))

\* wCC = (w[:, 1:, :] + w[:, :-1, :]) * 0.5
kinetic_energy_wCC ==
    Assign("wCC",
       Bin("*", Bin("+", Sub(Name("w"), <<SlAll, SlFrom(1), SlAll>>),
                         Sub(Name("w"), <<SlAll, SlTo(-1), SlAll>>)),
                Const(RHalf)))

\* return 0.5 * rhow * (uCC**2 + wCC**2) * areas[None, :, :]
kinetic_energy_return ==
    Return(Bin("*", Bin("*", Bin("*", Const(RHalf), Name("rhow")),
                             Bin("+", Sq(Name("uCC")), Sq(Name("wCC")))),
                    Sub(Name("areas"), <<NewAxis, SlAll, SlAll>>)))

\* kinetic_energy(u, w, xF, zF, rhow)
kinetic_energy ==
    <<kinetic_energy_uCC, kinetic_energy_wCC, box_dx, box_dz, box_areas,
      kinetic_energy_return>>

\* b0 = b[0, :, 0]: the reference taken from the first column.
potential_energy_b0_first == Assign("b0", Sub(Name("b"), <<At(0), SlAll, At(0)>>))

\* b0 = b[0, :, -1]
potential_energy_b0 == Assign("b0", Sub(Name("b"), <<At(0), SlAll, At(-1)>>))

\* delta_b = b0[None, :, None] - b
potential_energy_delta_b ==
    Assign("delta_b", Bin("-", Sub(Name("b0"), <<NewAxis, SlAll, NewAxis>>), Name("b")))

\* return rhow * delta_b * zC[None, :, None] * areas[None, :, :]
potential_energy_return ==
    Return(Bin("*", Bin("*", Bin("*", Name("rhow"), Name("delta_b")),
                             Sub(Name("zC"), <<NewAxis, SlAll, NewAxis>>)),
                    Sub(Name("areas"), <<NewAxis, SlAll, SlAll>>)))

\* potential_energy computing delta_b in b's own memory:
\* b -= b0[None, :, None]; return -1 * rhow * b * zC[None, :, None] * areas[None, :, :]
potential_energy_in_place ==
    <<box_dx, box_dz, box_areas, potential_energy_b0,
      Aug("b", <<>>, "-", Sub(Name("b0"), <<NewAxis, SlAll, NewAxis>>)),
      Return(Bin("*", Bin("*", Bin("*", Bin("*", Const(R(-1)), Name("rhow")), Name("b")),
                               Sub(Name("zC"), <<NewAxis, SlAll, NewAxis>>)),
                      Sub(Name("areas"), <<NewAxis, SlAll, SlAll>>)))>>

\* potential_energy(b, xF, zF, zC, rhow)
potential_energy ==
    <<box_dx, box_dz, box_areas, potential_energy_b0, potential_energy_delta_b,
      potential_energy_return>>

\* ------------------------------------------------------------------ inputs

\* rhow: the default of kinetic_energy and potential_energy, and the value
\* of a unit-density-1000 example.
RhowValues == {1000, 1025}

\* Non-constant parts of the fields: they vary along every axis, and not
\* linearly, so that neighbouring differences differ from place to place and
\* from one time step to the next; they stay below 7, which keeps every
\* product of the diagnostics within TLC's integers.
PatternU(t, i, j) == (1 + 3 * t + (1 + t) * (3 * i * i + j * j * j + i * j)) % 7

PatternW(t, i, j) == (2 + 5 * t + (1 + t) * (i * i * i + 2 * j * j + 3 * i * j)) % 7

PatternB(t, i, j) == (1 + 3 * t + (1 + t) * (2 * i + j * j)) % 7

\* The ambient buoyancy profile.
ProfileB(i) == 1 + i * i

\* The position of face j of an axis: uniform steps for q = 0, stretched
\* (strictly increasing, unequal steps) for q > 0.
FacePos(j, step, q) == step * j + q * j * j

\* Cell faces, and cell centers midway between the faces.
Faces(n, step, q) ==
    [err |-> FALSE, shape |-> <<n>>,
     data |-> [idx \in IndexSet(<<n>>) |-> R(FacePos(idx[1], step, q))]]

Centers(n, step, q) ==
    [err |-> FALSE, shape |-> <<n>>,
     data |-> [idx \in IndexSet(<<n>>) |->
                 RMul(RHalf, R(FacePos(idx[1], step, q) + FacePos(idx[1] + 1, step, q)))]]

\* u is 2 and w is 0 everywhere for k = 0; b is its ambient profile for k = 0.
FieldU(shape, k) ==
    [err |-> FALSE, shape |-> shape,
     data |-> [idx \in IndexSet(shape) |-> R(2 + k * PatternU(idx[1], idx[2], idx[3]))]]

FieldW(shape, k) ==
    [err |-> FALSE, shape |-> shape,
     data |-> [idx \in IndexSet(shape) |-> R(0 + k * PatternW(idx[1], idx[2], idx[3]))]]

FieldB(shape, k) ==
    [err |-> FALSE, shape |-> shape,
     data |-> [idx \in IndexSet(shape) |->
                 R(ProfileB(idx[2]) + k * PatternB(idx[1], idx[2], idx[3]))]]

\* The arguments of the diagnostics for the axis lengths d:  u at
\* (time, zC, xF), w at (time, zF, xC), b at (time, zC, xC).  The x axis has
\* unit step, the z axis step 1 + q; both are stretched by q.
Inputs(d, q, k, rhow) ==
    [u |-> FieldU(<<d.ut, d.uz, d.ux>>, k),
     w |-> FieldW(<<d.wt, d.wz, d.wx>>, k),
     b |-> FieldB(<<d.bt, d.bz, d.bx>>, k),
     xC |-> Centers(d.xC, 1, q),
     xF |-> Faces(d.xF, 1, q),
     zC |-> Centers(d.zC, 1 + q, q),
     zF |-> Faces(d.zF, 1 + q, q),
     rhow |-> Scalar(R(rhow))]

\* The axis lengths of a staggered grid of nt time steps and nz by nx cells.
Staggered(nt, nz, nx) ==
    [ut |-> nt, uz |-> nz, ux |-> nx + 1,
     wt |-> nt, wz |-> nz + 1, wx |-> nx,
     bt |-> nt, bz |-> nz, bx |-> nx,
     xC |-> nx, xF |-> nx + 1, zC |-> nz, zF |-> nz + 1]

\* ------------------------------------------------------------------ state

VARIABLES
    mem,      \* the caller's arrays (u, w, b, xC, xF, zC, zF, rhow), as they are now
    orig,     \* the caller's arrays as they were constructed
    op,       \* the diagnostic called last ("none" before the first call)
    tsel,     \* the time index handed to vorty_zx
    ret,      \* what the last call returned (Failure: it raised)
    owner,    \* whose memory the returned array is: an argument's, or "fresh"
    terms,    \* for each entry of a vorticity result, the in-place updates that wrote it
    pc,       \* the dispatcher: "idle", in its "loop", "returned" or "raised"
    fn,       \* the dispatcher function called ("none" before the call)
    func,     \* the function handed to apply_func / apply_metric
    func_list, \* the functions handed to apply_funcs
    runid,    \* the run identifier handed to apply_func / apply_funcs
    args,     \* the extra arguments handed to apply_metric
    table,    \* the rows of the parameter file
    runids,   \* apply_metric: the id column of the table
    pos,      \* the position of the running for loop (1-based)
    val_list, \* the list the loop appends to (value_list in apply_funcs)
    calls,    \* the calls made to the caller's functions, in order
    result,   \* <<v>> once the dispatcher has returned v
    exc       \* <<e>> once the exception e has left the dispatcher

gvars == <<mem, orig, op, tsel, ret, owner, terms>>

dvars == <<pc, fn, func, func_list, runid, args, table, runids, pos, val_list, calls,
           result, exc>>

vars == <<gvars, dvars>>

\* a[t] = value, written through a view of a
SetTime(a, t, value) ==
    [a EXCEPT !.data = [idx \in DOMAIN a.data |->
                          IF idx[1] = t THEN value.data[Tail(idx)] ELSE a.data[idx]]]

\* No dispatcher call has been made.
DispatchIdle ==
    /\ pc = "idle"
    /\ fn = "none"
    /\ func = <<>>
    /\ func_list = <<>>
    /\ runid = ""
    /\ args = <<>>
    /\ table = <<>>
    /\ runids = <<>>
    /\ pos = 1
    /\ val_list = <<>>
    /\ calls = <<>>
    /\ result = <<>>
    /\ exc = <<>>

\* No diagnostic has been called.
Idle ==
    /\ orig = mem
    /\ op = "none"
    /\ tsel = 0
    /\ ret = Failure
    /\ owner = "none"
    /\ terms = <<>>

\* Valid staggered inputs.
InitGrid ==
    \E nt \in 1..MaxNt, nz \in 1..MaxN, nx \in 1..MaxN,
       q \in 0..MaxCoef, k \in 0..MaxCoef, rhow \in RhowValues :
        /\ mem = Inputs(Staggered(nt, nz, nx), q, k, rhow)
        /\ Idle
        /\ DispatchIdle

\* The axis lengths d with the length of axis a set to n.
Resize(d, a, n) == [d EXCEPT ![a] = n]

AxisNames == DOMAIN Staggered(1, 1, 1)

\* Inputs of any shape: a staggered grid with at most one axis length changed.
InitAnyShape ==
    \E nt \in 1..MaxNt, nz \in 1..MaxN, nx \in 1..MaxN, a \in AxisNames, n \in 0..MaxLen :
        /\ mem = Inputs(Resize(Staggered(nt, nz, nx), a, n), 1, 1, 1025)
        /\ Idle
        /\ DispatchIdle

\* The arguments of each diagnostic, by parameter name, taken from the
\* caller's arrays m, and the caller's array each parameter refers to.
VortyZxArgs(m, t) ==
    [u_zx |-> NpIndex(m.u, <<At(t)>>), w_zx |-> NpIndex(m.w, <<At(t)>>),
     xC |-> m.xC, xF |-> m.xF, zC |-> m.zC, zF |-> m.zF]

VortyZxParams ==
    [u_zx |-> "u", w_zx |-> "w", xC |-> "xC", xF |-> "xF", zC |-> "zC", zF |-> "zF"]

VortyTzxArgs(m) ==
    [u_tzx |-> m.u, w_tzx |-> m.w, xC |-> m.xC, xF |-> m.xF, zC |-> m.zC, zF |-> m.zF]

VortyTzxParams ==
    [u_tzx |-> "u", w_tzx |-> "w", xC |-> "xC", xF |-> "xF", zC |-> "zC", zF |-> "zF"]

KineticEnergyArgs(m) ==
    [u |-> m.u, w |-> m.w, xF |-> m.xF, zF |-> m.zF, rhow |-> m.rhow]

KineticEnergyParams == [u |-> "u", w |-> "w", xF |-> "xF", zF |-> "zF", rhow |-> "rhow"]

PotentialEnergyArgs(m) ==
    [b |-> m.b, xF |-> m.xF, zF |-> m.zF, zC |-> m.zC, rhow |-> m.rhow]

PotentialEnergyParams == [b |-> "b", xF |-> "xF", zF |-> "zF", zC |-> "zC", rhow |-> "rhow"]

\* What a finished call leaves in the state.
Finish(f, name, t) ==
    /\ op' = name
    /\ tsel' = t
    /\ ret' = f.ret
    /\ owner' = f.owner
    /\ terms' = IF f.returned /\ f.retname \in DOMAIN f.wrote
                THEN f.wrote[f.retname] ELSE <<>>
    /\ UNCHANGED <<orig, dvars>>

\* vorty_zx(u[t], w[t], xC, xF, zC, zF)
CallVortyZx ==
    \E t \in 0..(mem.u.shape[1] - 1) :
        /\ t < mem.w.shape[1]
        /\ \E f \in {Call(vorty_zx, VortyZxArgs(mem, t), VortyZxParams)} :
            /\ Finish(f, "vorty_zx", t)
            /\ mem' = [mem EXCEPT !.u = SetTime(@, t, f.vals["u_zx"]),
                                  !.w = SetTime(@, t, f.vals["w_zx"]),
                                  !.xC = f.vals["xC"], !.xF = f.vals["xF"],
                                  !.zC = f.vals["zC"], !.zF = f.vals["zF"]]

\* vorty_tzx(u, w, xC, xF, zC, zF)
CallVortyTzx ==
    \E f \in {Call(vorty_tzx, VortyTzxArgs(mem), VortyTzxParams)} :
        /\ Finish(f, "vorty_tzx", 0)
        /\ mem' = [mem EXCEPT !.u = f.vals["u_tzx"], !.w = f.vals["w_tzx"],
                              !.xC = f.vals["xC"], !.xF = f.vals["xF"],
                              !.zC = f.vals["zC"], !.zF = f.vals["zF"]]

\* kinetic_energy(u, w, xF, zF, rhow)
CallKineticEnergy ==
    \E f \in {Call(kinetic_energy, KineticEnergyArgs(mem), KineticEnergyParams)} :
        /\ Finish(f, "kinetic_energy", 0)
        /\ mem' = [mem EXCEPT !.u = f.vals["u"], !.w = f.vals["w"],
                              !.xF = f.vals["xF"], !.zF = f.vals["zF"]]

\* potential_energy(b, xF, zF, zC, rhow)
CallPotentialEnergy ==
    \E f \in {Call(potential_energy, PotentialEnergyArgs(mem), PotentialEnergyParams)} :
        /\ Finish(f, "potential_energy", 0)
        /\ mem' = [mem EXCEPT !.b = f.vals["b"], !.xF = f.vals["xF"],
                              !.zF = f.vals["zF"], !.zC = f.vals["zC"]]

NextGrid ==
    \/ CallVortyZx
    \/ CallVortyTzx
    \/ CallKineticEnergy
    \/ CallPotentialEnergy

\* The diagnostics on valid staggered inputs.
Spec == InitGrid /\ [][NextGrid]_vars

\* The diagnostics on inputs of any shape.
SpecAnyShape == InitAnyShape /\ [][NextGrid]_vars

\* ------------------------------------------------------------------ the dispatcher

\* Run identifiers, and the rows of a parameter file: an id and one parameter.
RunIds == {"A", "BB"}

Rows == [id : RunIds, N2 : {1}]

\* The parameter files of at most MaxRows rows (the same id may occur twice).
Tables == UNION {[1..n -> Rows] : n \in 0..MaxRows}

\* The exceptions a caller's function may raise.
Exceptions == {-1, -2}

\* What a call of a caller's function does: it returns val, or raises the
\* exception val.
Outcomes == [ok : {TRUE}, val : 1..MaxVal] \cup [ok : {FALSE}, val : Exceptions]

\* The caller's functions, by run identifier.  (The extra arguments reach
\* the function; its outcome is taken not to depend on them.)
Funcs == [RunIds -> Outcomes]

FuncLists == UNION {[1..n -> Funcs] : n \in 0..MaxFuncs}

\* The extra positional arguments of apply_metric.
ArgTuples == {<<>>, <<"x", "y">>}

\* df["id"]
Column(df, name) == [k \in 1..Len(df) |-> df[k][name]]

\* One call f(r, *a), as the call log records it.
CallOf(f, r, a) == [func |-> f, runid |-> r, args |-> a]

\* apply_func(f, r): return func(runid)
ApplyFunc(f, r) == f[r]

\* apply_func(func, runid), called by the user.
CallApplyFunc ==
    /\ pc = "idle"
    /\ \E f \in Funcs, r \in RunIds :
        \E out \in {ApplyFunc(f, r)} :
            /\ fn' = "apply_func"
            /\ func' = f
            /\ runid' = r
            /\ calls' = <<CallOf(f, r, <<>>)>>
            /\ IF out.ok
               THEN pc' = "returned" /\ result' = <<out.val>> /\ exc' = <<>>
               ELSE pc' = "raised" /\ exc' = <<out.val>> /\ result' = <<>>
    /\ UNCHANGED <<func_list, args, table, runids, pos, val_list, gvars>>

\* apply_funcs(func_list, runid): value_list = [], and the loop is entered.
StartApplyFuncs ==
    /\ pc = "idle"
    /\ \E fl \in FuncLists, r \in RunIds :
        /\ func_list' = fl
        /\ runid' = r
    /\ fn' = "apply_funcs"
    /\ val_list' = <<>>
    /\ pos' = 1
    /\ pc' = "loop"
    /\ UNCHANGED <<func, args, table, runids, calls, result, exc, gvars>>

\* The loop calling func_list[0] every time round, not the function of its turn.
StepApplyFuncsFirst ==
    /\ pc = "loop"
    /\ fn = "apply_funcs"
    /\ pos <= Len(func_list)
    /\ \E out \in {ApplyFunc(func_list[1], runid)} :
        /\ calls' = Append(calls, CallOf(func_list[1], runid, <<>>))
        /\ IF out.ok
           THEN /\ val_list' = Append(val_list, out.val)
                /\ pos' = pos + 1
                /\ UNCHANGED <<pc, exc>>
           ELSE /\ pc' = "raised"
                /\ exc' = <<out.val>>
                /\ UNCHANGED <<val_list, pos>>
    /\ UNCHANGED <<fn, func, func_list, runid, args, table, runids, result, gvars>>

\* One turn of the loop of apply_funcs:
\* value = apply_func(func, runid); value_list.append(value)
StepApplyFuncs ==
    /\ pc = "loop"
    /\ fn = "apply_funcs"
    /\ pos <= Len(func_list)
    /\ \E out \in {ApplyFunc(func_list[pos], runid)} :
        /\ calls' = Append(calls, CallOf(func_list[pos], runid, <<>>))
        /\ IF out.ok
           THEN /\ val_list' = Append(val_list, out.val)
                /\ pos' = pos + 1
                /\ UNCHANGED <<pc, exc>>
           ELSE /\ pc' = "raised"
                /\ exc' = <<out.val>>
                /\ UNCHANGED <<val_list, pos>>
    /\ UNCHANGED <<fn, func, func_list, runid, args, table, runids, result, gvars>>

\* return value_list
ReturnApplyFuncs ==
    /\ pc = "loop"
    /\ fn = "apply_funcs"
    /\ pos > Len(func_list)
    /\ pc' = "returned"
    /\ result' = <<val_list>>
    /\ UNCHANGED <<fn, func, func_list, runid, args, table, runids, pos, val_list, calls,
                   exc, gvars>>

\* apply_metric(func, *args, parameter_file): val_list = [], the file is
\* read, its id column taken, and the loop is entered.
StartApplyMetric ==
    /\ pc = "idle"
    /\ \E f \in Funcs, a \in ArgTuples, df \in Tables :
        /\ func' = f
        /\ args' = a
        /\ table' = df
        /\ runids' = Column(df, "id")
    /\ fn' = "apply_metric"
    /\ val_list' = <<>>
    /\ pos' = 1
    /\ pc' = "loop"
    /\ UNCHANGED <<func_list, runid, calls, result, exc, gvars>>

\* The loop putting each value at the front of the list: val_list.insert(0, val)
StepApplyMetricInsert ==
    /\ pc = "loop"
    /\ fn = "apply_metric"
    /\ pos <= Len(runids)
    /\ \E out \in {func[runids[pos]]} :
        /\ calls' = Append(calls, CallOf(func, runids[pos], args))
        /\ IF out.ok
           THEN /\ val_list' = <<out.val>> \o val_list
                /\ pos' = pos + 1
                /\ UNCHANGED <<pc, exc>>
           ELSE /\ pc' = "raised"
                /\ exc' = <<out.val>>
                /\ UNCHANGED <<val_list, pos>>
    /\ UNCHANGED <<fn, func, func_list, runid, args, table, runids, result, gvars>>

\* The loop catching the exception of func and going on to the next row.
StepApplyMetricSkip ==
    /\ pc = "loop"
    /\ fn = "apply_metric"
    /\ pos <= Len(runids)
    /\ \E out \in {func[runids[pos]]} :
        /\ calls' = Append(calls, CallOf(func, runids[pos], args))
        /\ val_list' = IF out.ok THEN Append(val_list, out.val) ELSE val_list
        /\ pos' = pos + 1
    /\ UNCHANGED <<pc, exc, fn, func, func_list, runid, args, table, runids, result, gvars>>

\* One turn of the loop of apply_metric:
\* val = func(runid, *args); val_list.append(val)
StepApplyMetric ==
    /\ pc = "loop"
    /\ fn = "apply_metric"
    /\ pos <= Len(runids)
    /\ \E out \in {func[runids[pos]]} :
        /\ calls' = Append(calls, CallOf(func, runids[pos], args))
        /\ IF out.ok
           THEN /\ val_list' = Append(val_list, out.val)
                /\ pos' = pos + 1
                /\ UNCHANGED <<pc, exc>>
           ELSE /\ pc' = "raised"
                /\ exc' = <<out.val>>
                /\ UNCHANGED <<val_list, pos>>
    /\ UNCHANGED <<fn, func, func_list, runid, args, table, runids, result, gvars>>

\* return val_list
ReturnApplyMetric ==
    /\ pc = "loop"
    /\ fn = "apply_metric"
    /\ pos > Len(runids)
    /\ pc' = "returned"
    /\ result' = <<val_list>>
    /\ UNCHANGED <<fn, func, func_list, runid, args, table, runids, pos, val_list, calls,
                   exc, gvars>>

InitDispatch ==
    /\ mem = <<>>
    /\ Idle
    /\ DispatchIdle

NextDispatch ==
    \/ CallApplyFunc
    \/ StartApplyFuncs
    \/ StepApplyFuncs
    \/ ReturnApplyFuncs
    \/ StartApplyMetric
    \/ StepApplyMetric
    \/ ReturnApplyMetric

\* One call of a dispatcher function.
SpecDispatch == InitDispatch /\ [][NextDispatch]_vars

\* ------------------------------------------------------------------ properties of the diagnostics

\* The caller's arrays at construction, entry by entry.
U0(t, i, j) == orig.u.data[<<t, i, j>>]

W0(t, i, j) == orig.w.data[<<t, i, j>>]

B0(t, i, j) == orig.b.data[<<t, i, j>>]

XC0(j) == orig.xC.data[<<j>>]

XF0(j) == orig.xF.data[<<j>>]

ZC0(i) == orig.zC.data[<<i>>]

ZF0(i) == orig.zF.data[<<i>>]

Nt0 == orig.u.shape[1]

Nz0 == orig.zC.shape[1]

Nx0 == orig.xC.shape[1]

\* D[i, j]: the x-difference of w over the x-difference of xC, on interior columns.
TermD(t, i, j) ==
    IF 1 <= j /\ j <= Nx0 - 1
    THEN RDiv(RSub(W0(t, i, j), W0(t, i, j - 1)), RSub(XC0(j), XC0(j - 1)))
    ELSE R(0)

\* E[i, j]: the z-difference of u over the z-difference of zC, on interior rows.
TermE(t, i, j) ==
    IF 1 <= i /\ i <= Nz0 - 1
    THEN RDiv(RSub(U0(t, i, j), U0(t, i - 1, j)), RSub(ZC0(i), ZC0(i - 1)))
    ELSE R(0)

\* C1: on valid inputs vorty_zx returns an array of shape (len(zF), len(xF))
\* whose entry (i, j) is D[i, j] - E[i, j], with D the x-derivative of w on the
\* interior columns (0 elsewhere) and E the z-derivative of u on the interior
\* rows (0 elsewhere).
C1_VortyZxFormula ==
    op = "vorty_zx" =>
        /\ ~ret.err
        /\ ret.shape = <<Nz0 + 1, Nx0 + 1>>
        /\ orig.zF.shape = <<Nz0 + 1>> /\ orig.xF.shape = <<Nx0 + 1>>
        /\ \A i \in 0..Nz0, j \in 0..Nx0 :
              ret.data[<<i, j>>] = RSub(TermD(tsel, i, j), TermE(tsel, i, j))

\* A vorty_zx result with an interior entry where both derivatives are nonzero.
C1_Witness ==
    /\ op = "vorty_zx"
    /\ ~ret.err
    /\ Nz0 >= 2 /\ Nx0 >= 2
    /\ TermD(tsel, 1, 1) # R(0)
    /\ TermE(tsel, 1, 1) # R(0)
    /\ TermD(tsel, 1, 1) # TermE(tsel, 1, 1)
    /\ ret.data[<<1, 1>>] = RSub(TermD(tsel, 1, 1), TermE(tsel, 1, 1))

\* The row and column of an entry of a vorticity result (the last two axes).
RowOf(idx) == idx[Len(idx) - 1]

ColOf(idx) == idx[Len(idx)]

OnEdgeRow(idx) == RowOf(idx) \in {0, Nz0}

OnEdgeCol(idx) == ColOf(idx) \in {0, Nx0}

IsVorticity == op \in {"vorty_zx", "vorty_tzx"} /\ ~ret.err

\* C2 as stated: every entry of the boundary ring of a vorticity result,
\* corners included, has received exactly one of the two terms.
C2_RingOneTerm ==
    IsVorticity =>
        \A idx \in DOMAIN ret.data :
            (OnEdgeRow(idx) \/ OnEdgeCol(idx)) => Cardinality(terms[idx]) = 1

\* C2: a boundary entry that is not a corner has received exactly one term
\* (dwdx on the first and last row, dudz on the first and last column); the
\* four corners have received neither and are 0; interior entries have both.
C2_RingTerms ==
    IsVorticity =>
        \A idx \in DOMAIN ret.data :
            /\ (OnEdgeRow(idx) /\ OnEdgeCol(idx)) =>
                   terms[idx] = {} /\ ret.data[idx] = R(0)
            /\ (OnEdgeRow(idx) /\ ~OnEdgeCol(idx)) => terms[idx] = {"dwdx"}
            /\ (~OnEdgeRow(idx) /\ OnEdgeCol(idx)) => terms[idx] = {"dudz"}
            /\ (~OnEdgeRow(idx) /\ ~OnEdgeCol(idx)) => terms[idx] = {"dwdx", "dudz"}

\* A vorticity result with nonzero entries on an edge row and on an edge
\* column, and its zero corner.
C2_Witness ==
    /\ op = "vorty_tzx"
    /\ ~ret.err
    /\ Nz0 >= 2 /\ Nx0 >= 2
    /\ terms[<<0, 0, 1>>] = {"dwdx"} /\ ret.data[<<0, 0, 1>>] # R(0)
    /\ terms[<<0, 1, 0>>] = {"dudz"} /\ ret.data[<<0, 1, 0>>] # R(0)
    /\ terms[<<0, 0, 0>>] = {} /\ ret.data[<<0, 0, 0>>] = R(0)

\* The axis lengths the diagnostic called last was given.
Shape0(name) == orig[name].shape

\* len(face) = len(center) + 1 along each axis, for the arrays the diagnostic
\* called last was given.
StaggeredOk ==
    CASE op \in {"vorty_zx", "vorty_tzx"} ->
            /\ Shape0("xF")[1] = Shape0("xC")[1] + 1
            /\ Shape0("zF")[1] = Shape0("zC")[1] + 1
            /\ Shape0("u")[2] = Shape0("zC")[1] /\ Shape0("u")[3] = Shape0("xF")[1]
            /\ Shape0("w")[2] = Shape0("zF")[1] /\ Shape0("w")[3] = Shape0("xC")[1]
      [] op = "kinetic_energy" ->
            /\ Shape0("u")[2] + 1 = Shape0("zF")[1] /\ Shape0("u")[3] = Shape0("xF")[1]
            /\ Shape0("w")[2] = Shape0("zF")[1] /\ Shape0("w")[3] + 1 = Shape0("xF")[1]
      [] op = "potential_energy" ->
            /\ Shape0("zF")[1] = Shape0("zC")[1] + 1
            /\ Shape0("b")[2] = Shape0("zC")[1] /\ Shape0("b")[3] + 1 = Shape0("xF")[1]
      [] OTHER -> TRUE

\* C3: a call whose arguments break the staggered-grid size invariant along
\* some axis fails; it never returns a result.
C3_MismatchFails == (op # "none" /\ ~StaggeredOk) => ret.err

\* The diagnostic name applied to the caller's arrays m.
Diagnose(name, m, t) ==
    CASE name = "vorty_zx" -> Call(vorty_zx, VortyZxArgs(m, t), VortyZxParams)
      [] name = "vorty_tzx" -> Call(vorty_tzx, VortyTzxArgs(m), VortyTzxParams)
      [] name = "kinetic_energy" ->
            Call(kinetic_energy, KineticEnergyArgs(m), KineticEnergyParams)
      [] name = "potential_energy" ->
            Call(potential_energy, PotentialEnergyArgs(m), PotentialEnergyParams)

Rhow0 == orig.rhow.data[<<>>]

RSq(x) == RMul(x, x)

Dz0(i) == RSub(ZF0(i + 1), ZF0(i))

Dx0(j) == RSub(XF0(j + 1), XF0(j))

UAvg(t, i, j) == RDiv(RAdd(U0(t, i, j), U0(t, i, j + 1)), R(2))

WAvg(t, i, j) == RDiv(RAdd(W0(t, i, j), W0(t, i + 1, j)), R(2))

\* 0.5 * rhow * (uavg^2 + wavg^2) * dz[i] * dx[j]
KineticOf(t, i, j) ==
    RMul(RMul(RMul(RMul(RHalf, Rhow0), RAdd(RSq(UAvg(t, i, j)), RSq(WAvg(t, i, j)))),
              Dz0(i)),
         Dx0(j))

\* u = 2 and w = 0 everywhere, dx = dz = 1, rhow = 1000.
UniformExample ==
    /\ \A idx \in DOMAIN orig.u.data : orig.u.data[idx] = R(2)
    /\ \A idx \in DOMAIN orig.w.data : orig.w.data[idx] = R(0)
    /\ \A i \in 0..(Nz0 - 1) : Dz0(i) = R(1)
    /\ \A j \in 0..(Nx0 - 1) : Dx0(j) = R(1)
    /\ Rhow0 = R(1000)

\* C4: on valid inputs kinetic_energy returns an array of shape (nt, nz, nx)
\* whose entry (t, i, j) is 0.5 * rhow * (uavg^2 + wavg^2) * dz[i] * dx[j] with
\* uavg, wavg the means of the two adjacent faces; with u = 2, w = 0,
\* dx = dz = 1 and rhow = 1000 every cell is 2000.
C4_KineticEnergyFormula ==
    op = "kinetic_energy" =>
        /\ ~ret.err
        /\ ret.shape = <<Nt0, Nz0, Nx0>>
        /\ ret.shape = <<Nt0, orig.zF.shape[1] - 1, orig.xF.shape[1] - 1>>
        /\ \A t \in 0..(Nt0 - 1), i \in 0..(Nz0 - 1), j \in 0..(Nx0 - 1) :
              /\ ret.data[<<t, i, j>>] = KineticOf(t, i, j)
              /\ UniformExample => ret.data[<<t, i, j>>] = R(2000)

\* A kinetic_energy result on a stretched grid with both velocity components
\* nonzero and different in the averaged faces.
C4_Witness ==
    /\ op = "kinetic_energy"
    /\ ~ret.err
    /\ Nt0 >= 2 /\ Nz0 >= 2 /\ Nx0 >= 2
    /\ U0(1, 1, 0) # U0(1, 1, 1)
    /\ W0(1, 0, 1) # W0(1, 1, 1)
    /\ WAvg(1, 1, 1) # R(0)
    /\ Dz0(1) # Dz0(0)
    /\ Dx0(1) # Dx0(0)
    /\ ret.data[<<1, 1, 1>>] = KineticOf(1, 1, 1)
    /\ ret.data[<<1, 1, 1>>] # R(0)

\* The last x index of b.
LastX == orig.b.shape[3] - 1

\* rhow * (b[0, i, last] - b[t, i, j]) * zC[i] * dz[i] * dx[j]
PotentialOf(t, i, j) ==
    RMul(RMul(RMul(RMul(Rhow0, RSub(B0(0, i, LastX), B0(t, i, j))), ZC0(i)), Dz0(i)),
         Dx0(j))

\* b equals its own reference profile everywhere.
AtReference == \A idx \in DOMAIN orig.b.data : orig.b.data[idx] = B0(0, idx[2], LastX)

\* C5: potential_energy returns entry (t, i, j) =
\* rhow * (b[0, i, last] - b[t, i, j]) * zC[i] * dz[i] * dx[j], the reference
\* being time 0 and the last x index; when b equals that reference everywhere
\* the result is zero in every cell.
C5_PotentialEnergyFormula ==
    op = "potential_energy" =>
        /\ ~ret.err
        /\ ret.shape = orig.b.shape
        /\ \A idx \in DOMAIN orig.b.data :
              /\ ret.data[idx] = PotentialOf(idx[1], idx[2], idx[3])
              /\ AtReference => ret.data[idx] = R(0)

\* A potential_energy result where the first and the last column of b at time
\* 0 differ, b changes in time, and the result is not zero.
C5_Witness ==
    /\ op = "potential_energy"
    /\ ~ret.err
    /\ Nt0 >= 2 /\ Nz0 >= 2 /\ Nx0 >= 2
    /\ B0(0, 1, 0) # B0(0, 1, LastX)
    /\ B0(1, 1, LastX) # B0(0, 1, LastX)
    /\ B0(0, 0, LastX) # B0(0, 1, LastX)
    /\ ret.data[<<1, 1, 0>>] = PotentialOf(1, 1, 0)
    /\ ret.data[<<1, 1, 0>>] # R(0)
    /\ ret.data[<<0, 1, LastX>>] = R(0)

\* C6: on valid inputs with nt time steps in both fields, vorty_tzx returns an
\* array of shape (nt, len(zF), len(xF)) whose slice at each time t equals,
\* entry for entry, vorty_zx of the fields' slices at t.
C6_TzxIsZxPerTime ==
    op = "vorty_tzx" =>
        /\ ~ret.err
        /\ orig.w.shape[1] = Nt0
        /\ ret.shape = <<Nt0, orig.zF.shape[1], orig.xF.shape[1]>>
        /\ \A t \in 0..(Nt0 - 1) :
              \A f \in {Diagnose("vorty_zx", orig, t)} :
                  /\ ~f.ret.err
                  /\ f.ret.shape = <<ret.shape[2], ret.shape[3]>>
                  /\ \A idx \in DOMAIN f.ret.data :
                        ret.data[<<t>> \o idx] = f.ret.data[idx]

\* A vorty_tzx result with two time steps whose interior entries differ.
C6_Witness ==
    /\ op = "vorty_tzx"
    /\ ~ret.err
    /\ Nt0 >= 2 /\ Nz0 >= 2 /\ Nx0 >= 2
    /\ ret.data[<<0, 1, 1>>] # ret.data[<<1, 1, 1>>]
    /\ ret.data[<<1, 1, 1>>] # R(0)
    /\ \A f \in {Diagnose("vorty_zx", orig, 1)} : f.ret.data[<<1, 1>>] = ret.data[<<1, 1, 1>>]

\* C10: after any sequence of diagnostic calls the caller's arrays hold their
\* original values, the array returned last is freshly allocated, and it is
\* what the same call returns on the original inputs.
C10_InputsUnchanged ==
    /\ mem = orig
    /\ op # "none" =>
          /\ ~ret.err
          /\ owner = "fresh"
          /\ \A f \in {Diagnose(op, orig, tsel)} : ret = f.ret

\* A call of potential_energy has returned a nonzero array and b, xF, zF and
\* zC are as constructed.
C10_Witness ==
    /\ op = "potential_energy"
    /\ ~ret.err
    /\ owner = "fresh"
    /\ \E idx \in DOMAIN ret.data : ret.data[idx] # R(0)
    /\ mem.b = orig.b /\ mem.xF = orig.xF /\ mem.zF = orig.zF /\ mem.zC = orig.zC
    /\ Nt0 >= 2 /\ Nz0 >= 2 /\ Nx0 >= 2

\* ------------------------------------------------------------------ properties of the dispatcher

\* The id of row k of the parameter file.
IdOf(k) == table[k].id

\* C7: apply_metric calls func(runid, *args) once for each row of the table, in
\* table order, duplicate ids included, and returns a list as long as the
\* table whose k-th element is what the call for row k returned.
C7_ApplyMetricInOrder ==
    fn = "apply_metric" =>
        /\ Len(calls) <= Len(table)
        /\ \A k \in 1..Len(calls) : calls[k] = CallOf(func, IdOf(k), args)
        /\ pc = "loop" => Len(calls) = pos - 1 /\ Len(val_list) = pos - 1
        /\ \A k \in 1..Len(val_list) : val_list[k] = func[IdOf(k)].val
        /\ pc = "returned" =>
              /\ Len(calls) = Len(table)
              /\ Len(result) = 1
              /\ Len(result[1]) = Len(table)
              /\ \A k \in 1..Len(table) :
                    func[IdOf(k)].ok /\ result[1][k] = func[IdOf(k)].val

\* apply_metric has returned <<1, 2, 1>> for the ids A, BB, A, having handed
\* the extra arguments to each call.
C7_Witness ==
    /\ fn = "apply_metric"
    /\ pc = "returned"
    /\ Column(table, "id") = <<"A", "BB", "A">>
    /\ args = <<"x", "y">>
    /\ result = << <<1, 2, 1>> >>
    /\ Len(calls) = 3
    /\ calls[3] = CallOf(func, "A", <<"x", "y">>)

\* C8: once a call of func has failed during apply_metric, that call is the
\* last call made, its exception has left apply_metric unchanged, and nothing
\* has been returned; the rows before it were each called once, in order.
C8_ApplyMetricAborts ==
    fn = "apply_metric" =>
        /\ \A k \in 1..Len(calls) :
              ~func[calls[k].runid].ok =>
                  /\ k = Len(calls)
                  /\ pc = "raised"
                  /\ exc = <<func[calls[k].runid].val>>
                  /\ result = <<>>
        /\ pc = "raised" =>
              /\ Len(calls) >= 1
              /\ Len(calls) <= Len(table)
              /\ ~func[IdOf(Len(calls))].ok
              /\ \A j \in 1..(Len(calls) - 1) :
                    func[IdOf(j)].ok /\ calls[j] = CallOf(func, IdOf(j), args)
        /\ pc # "returned" => result = <<>>
        /\ pc # "raised" => exc = <<>>

\* func has failed on the second of three rows, after returning for the
\* first: its exception is out, and no third call was made.
C8_Witness ==
    /\ fn = "apply_metric"
    /\ pc = "raised"
    /\ Len(table) = 3
    /\ Len(calls) = 2
    /\ func[IdOf(1)].ok
    /\ ~func[IdOf(2)].ok
    /\ func[IdOf(3)].ok
    /\ exc = <<-2>>
    /\ val_list = <<func[IdOf(1)].val>>
    /\ result = <<>>

\* C9: apply_funcs calls each function of func_list once with the same runid,
\* in list order, and returns a list as long as func_list whose k-th element
\* is func_list[k](runid); apply_func returns func(runid).
C9_ApplyFuncsInOrder ==
    /\ fn = "apply_funcs" =>
          /\ Len(calls) <= Len(func_list)
          /\ \A k \in 1..Len(calls) : calls[k] = CallOf(func_list[k], runid, <<>>)
          /\ pc = "loop" => Len(calls) = pos - 1
          /\ pc = "returned" =>
                /\ Len(calls) = Len(func_list)
                /\ Len(result) = 1
                /\ Len(result[1]) = Len(func_list)
                /\ \A k \in 1..Len(func_list) :
                      func_list[k][runid].ok /\ result[1][k] = func_list[k][runid].val
    /\ fn = "apply_func" =>
          /\ calls = <<CallOf(func, runid, <<>>)>>
          /\ func[runid].ok => pc = "returned" /\ result = <<func[runid].val>>
          /\ ~func[runid].ok => pc = "raised" /\ exc = <<func[runid].val>>

\* apply_funcs has returned <<2, 1>> for two different functions of BB.
C9_Witness ==
    /\ fn = "apply_funcs"
    /\ pc = "returned"
    /\ runid = "BB"
    /\ Len(func_list) = 2
    /\ func_list[1] # func_list[2]
    /\ func_list[1]["A"] # func_list[1]["BB"]
    /\ result = << <<2, 1>> >>
    /\ Len(calls) = 2

====
